---- MODULE Spec2Model ----
(***************************************************************************)
(* Model of the contract-analysis core: AnalysisService.analyze_document   *)
(* (src/src/services/analysis_service.py), retry_with_backoff              *)
(* (src/src/services/retry.py), the provider client                        *)
(* (src/src/services/ai_client.py) and the response validator              *)
(* (src/src/prompts/clause_extraction.py, src/src/prompts/schemas.py).     *)
(*                                                                         *)
(* A coroutine is cut into one action per stretch of code between two      *)
(* awaits.  Spec drives one analyze_document call; SpecRetry drives        *)
(* retry_with_backoff alone with an arbitrary max_retries.                 *)
(***************************************************************************)
EXTENDS Integers, Sequences, FiniteSets, TLC

VARIABLES
    pc,                \* position of analyze_document
    document_id,       \* argument
    tenant_id,         \* argument
    template_id,       \* argument
    document,          \* local: the row fetched, or NoRow
    template,          \* local: the template fetched, or NoRow
    analysis,          \* local: the Analysis object, or NoRow
    added_objects,     \* session.add calls, in order
    flush_calls,       \* number of session.flush calls
    commit_calls,      \* number of session.commit calls
    refresh_calls,     \* number of session.refresh calls
    attempt_counter,   \* attempt_counter[0]
    status_writes,     \* number of assignments to analysis.status after creation
    raised,            \* the exception that left analyze_document, or NoExc
    func,              \* the callable handed to retry_with_backoff
    max_retries,       \* retry_with_backoff argument
    rpc,               \* position of retry_with_backoff
    attempt,           \* loop variable of retry_with_backoff
    last_exception,    \* local of retry_with_backoff
    sleeps,            \* asyncio.sleep delays, in order
    calls,             \* calls of the callable so far: what was sent, what came back
    r_result,          \* value returned by retry_with_backoff
    r_exc,             \* exception raised by retry_with_backoff
    queue,             \* the job queue: deliveries waiting, per job
    dedup_keys,        \* message ids whose "analysis:processed:<id>" key is set
    locks,             \* holder of "analysis:lock:<document_id>", or None
    wpc,               \* position of each worker
    job,               \* the job each worker holds, or NoRow
    shutdown_event,    \* each worker's _shutdown_event
    flag_at_dequeue,   \* whether the event was set when dequeue returned the job
    trace,             \* collaborator calls of _process_job for the job held
    raw_text,          \* text handed to validate_ai_response
    validated,         \* what validate_ai_response returned or raised
    messages,          \* message list handed to AnthropicClient.complete
    body,              \* request body AnthropicClient.complete posts
    fpc                \* position of the function call under check

vars == <<pc, document_id, tenant_id, template_id, document, template, analysis,
          added_objects, flush_calls, commit_calls, refresh_calls, attempt_counter,
          status_writes, raised, func, max_retries, rpc, attempt, last_exception,
          sleeps, calls, r_result, r_exc, queue, dedup_keys, locks, wpc, job,
          shutdown_event, flag_at_dequeue, trace, raw_text, validated, messages,
          body, fpc>>

svcVars == <<pc, document_id, tenant_id, template_id, document, template, analysis,
             added_objects, flush_calls, commit_calls, refresh_calls, status_writes,
             raised>>

retryVars == <<func, max_retries, rpc, attempt, last_exception, sleeps, calls,
               r_result, r_exc>>

workerVars == <<queue, dedup_keys, locks, wpc, job, shutdown_event, flag_at_dequeue,
                trace>>

fnVars == <<raw_text, validated, messages, body, fpc>>

-----------------------------------------------------------------------------
(* Bounds of the model *)

\* largest number of clauses in a provider response
MaxClauses == 2

\* largest max_retries given to retry_with_backoff in SpecRetry
MaxRetriesBound == 4

\* largest number of deliveries of one job waiting in the queue at the start
MaxDeliveries == 2

\* the same, in the runs checked under fairness
MaxFairDeliveries == 1

\* longest message list handed to AnthropicClient.complete
MaxMessages == 3

-----------------------------------------------------------------------------
(* Values *)

\* Python None, for nullable string / id fields
None == "<None>"

\* no row / no object
NoRow == [none |-> TRUE]

\* no exception
NoExc == [kind |-> "NoException", message |-> ""]

Exc(kind, message) == [kind |-> kind, message |-> message]

\* enums.py
AnalysisStatus == {"PENDING", "PROCESSING", "COMPLETED", "FAILED", "TIMED_OUT"}

TerminalStatus == {"COMPLETED", "FAILED", "TIMED_OUT"}

ClauseType == {"PENALTY", "AUTO_RENEWAL", "CONFIDENTIALITY", "TERMINATION", "LIABILITY",
               "INDEMNIFICATION", "GOVERNING_LAW", "PAYMENT_TERMS", "FORCE_MAJEURE",
               "OTHER"}

RiskLevel == {"LOW", "MEDIUM", "HIGH", "CRITICAL"}

-----------------------------------------------------------------------------
(* Storage content: rows of documents and analysis_templates *)

Tenants == {"t1", "t2"}

\* documents table: d1, d2 have text; d3 has empty text; d4 has NULL text
Documents ==
    { [id |-> "d1", tenant_id |-> "t1", extracted_text |-> "Some contract text"],
      [id |-> "d2", tenant_id |-> "t2", extracted_text |-> "Other contract text"],
      [id |-> "d3", tenant_id |-> "t1", extracted_text |-> ""],
      [id |-> "d4", tenant_id |-> "t2", extracted_text |-> None] }

\* document ids a caller may ask for; dX is in no row
DocumentIds == {"d1", "d2", "d3", "d4", "dX"}

\* analysis_templates table
Templates ==
    { [id |-> "tplA", tenant_id |-> "t1", prompt_override |-> "custom instructions"],
      [id |-> "tplB", tenant_id |-> "t2", prompt_override |-> None] }

\* template ids a caller may pass; tplX is in no row
TemplateIds == {None, "tplA", "tplB", "tplX"}

\* mutant of ScalarOneOrNone: the where clause lacks the tenant filter
ScalarOneOrNone_IgnoreTenant(rows, id, tenant) ==
    LET hit == {r \in rows : r.id = id}
    IN  IF hit = {} THEN NoRow ELSE CHOOSE r \in hit : TRUE

\* select(Model).where(Model.id == id, Model.tenant_id == tenant).scalar_one_or_none()
ScalarOneOrNone(rows, id, tenant) ==
    LET hit == {r \in rows : r.id = id /\ r.tenant_id = tenant}
    IN  IF hit = {} THEN NoRow ELSE CHOOSE r \in hit : TRUE

\* mutant of Truthy: "is not None" in place of truthiness
Truthy_NoneOnly(s) == s # None

\* Python truthiness of an optional string
Truthy(s) == s # None /\ s # ""

-----------------------------------------------------------------------------
(* Prompt: clause_extraction.py *)

SYSTEM_PROMPT == "default extraction instructions"

\* build_extraction_prompt(document_text, template)
build_extraction_prompt(document_text, tmpl) ==
    LET system_content ==
            IF tmpl # NoRow /\ Truthy(tmpl.prompt_override)
            THEN tmpl.prompt_override
            ELSE SYSTEM_PROMPT
    IN  << [role |-> "system", content |-> system_content],
           [role |-> "user", content |-> "Analyze this document:\n\n" \o document_text] >>

-----------------------------------------------------------------------------
(* Provider responses.  A raw response is kept as the JSON value it denotes: *)
(* json = "object" when the text parses to an object, "malformed" otherwise. *)

\* confidence_score is kept in hundredths: 95 stands for 0.95
SampleClause(i) ==
    [ clause_type      |-> CASE i % 3 = 1 -> "AUTO_RENEWAL"
                             [] i % 3 = 2 -> "LIABILITY"
                             [] OTHER     -> "TERMINATION",
      risk_level       |-> CASE i % 3 = 1 -> "HIGH"
                             [] i % 3 = 2 -> "CRITICAL"
                             [] OTHER     -> "MEDIUM",
      title            |-> "Clause " \o ToString(i),
      page_number      |-> i,
      confidence_score |-> 95 ]

\* conftest.VALID_AI_RESPONSE, with n clauses
ValidResponse(n) ==
    [ json |-> "object", is_contract |-> TRUE, language |-> "English",
      clauses |-> [i \in 1..n |-> SampleClause(i)] ]

\* conftest.NON_CONTRACT_RESPONSE
NON_CONTRACT_RESPONSE ==
    [ json |-> "object", is_contract |-> FALSE, language |-> "English",
      clauses |-> <<>> ]

\* conftest.MALFORMED_JSON
MALFORMED_JSON ==
    [ json |-> "malformed", is_contract |-> FALSE, language |-> "", clauses |-> <<>> ]

\* an object whose only clause has a risk_level outside the enum
InvalidRiskLevelResponse ==
    [ json |-> "object", is_contract |-> TRUE, language |-> "English",
      clauses |-> << [SampleClause(1) EXCEPT !.risk_level = "EXTREME"] >> ]

\* an object marked non-contract that still lists a clause
NonContractWithClauses ==
    [ json |-> "object", is_contract |-> FALSE, language |-> "English",
      clauses |-> << SampleClause(1) >> ]

ValidTexts == {ValidResponse(n) : n \in 0..MaxClauses} \cup {NON_CONTRACT_RESPONSE}

InvalidTexts == {MALFORMED_JSON, InvalidRiskLevelResponse, NonContractWithClauses}

\* what the network can do to one request
WireOutcomes ==
    { [wire |-> "timeout", text |-> MALFORMED_JSON],
      [wire |-> "status_error", text |-> MALFORMED_JSON],
      [wire |-> "connect_error", text |-> MALFORMED_JSON] }
    \cup { [wire |-> "ok", text |-> t] : t \in ValidTexts \cup InvalidTexts }

-----------------------------------------------------------------------------
(* Provider client: ai_client.py *)

\* timeout: float = 60.0 of the clients, handed to httpx.AsyncClient: seconds
provider_timeout == 60

\* AIClient.complete for the n-th request: the text, or the exception raised.
\* httpx.TimeoutException becomes AITimeoutError; raise_for_status raises
\* httpx.HTTPStatusError; any other transport failure propagates as it is.
complete(w, n) ==
    CASE w.wire = "ok" ->
            [exc |-> NoExc, text |-> w.text]
      [] w.wire = "timeout" ->
            [exc  |-> Exc("AITimeoutError",
                          "Anthropic request timed out: request " \o ToString(n)),
             text |-> MALFORMED_JSON]
      [] w.wire = "status_error" ->
            [exc  |-> Exc("HTTPStatusError", "Server error for request " \o ToString(n)),
             text |-> MALFORMED_JSON]
      [] OTHER ->
            [exc  |-> Exc("ConnectError", "Connection failed for request " \o ToString(n)),
             text |-> MALFORMED_JSON]

-----------------------------------------------------------------------------
(* Response validator: schemas.py, clause_extraction.py *)

\* mutant of ClauseExtractionOk: confidence_score has no upper bound (le=1.0 missing)
ClauseExtractionOk_NoUpperBound(c) ==
    /\ c.clause_type \in ClauseType
    /\ c.risk_level \in RiskLevel
    /\ c.title # ""
    /\ c.confidence_score >= 0

\* mutant of ClauseExtractionOk: the field validator of risk_level is missing
ClauseExtractionOk_NoRiskLevel(c) ==
    /\ c.clause_type \in ClauseType
    /\ c.title # ""
    /\ c.confidence_score >= 0
    /\ c.confidence_score <= 100

\* ClauseExtraction field constraints
ClauseExtractionOk(c) ==
    /\ c.clause_type \in ClauseType
    /\ c.risk_level \in RiskLevel
    /\ c.title # ""
    /\ c.confidence_score >= 0
    /\ c.confidence_score <= 100

\* mutant of model_validate_ok: a non-contract answer is rejected whatever it lists
model_validate_ok_RejectNonContract(data) ==
    /\ \A i \in 1..Len(data.clauses) :
          /\ data.clauses[i].clause_type \in ClauseType
          /\ data.clauses[i].risk_level \in RiskLevel
          /\ data.clauses[i].title # ""
          /\ data.clauses[i].confidence_score >= 0
          /\ data.clauses[i].confidence_score <= 100
    /\ data.is_contract

\* mutant of model_validate_ok: the model validator on is_contract is missing
model_validate_ok_NoCrossField(data) ==
    \A i \in 1..Len(data.clauses) : ClauseExtractionOk(data.clauses[i])

\* AIExtractionResponse.model_validate
model_validate_ok(data) ==
    /\ \A i \in 1..Len(data.clauses) : ClauseExtractionOk(data.clauses[i])
    /\ ~(~data.is_contract /\ Len(data.clauses) > 0)

\* validate_ai_response(raw_response): the typed result, or the exception raised
validate_ai_response(raw_response) ==
    IF raw_response.json # "object"
    THEN [exc   |-> Exc("AIResponseValidationError", "Failed to parse AI response as JSON."),
          value |-> raw_response]
    ELSE IF ~model_validate_ok(raw_response)
    THEN [exc   |-> Exc("AIResponseValidationError", "AI response failed schema validation"),
          value |-> raw_response]
    ELSE [exc |-> NoExc, value |-> raw_response]

-----------------------------------------------------------------------------
(* The text of a response.  A text is a sequence of tokens: a code fence, a    *)
(* word, a newline, a blank, or the text of one JSON value (kept as the value  *)
(* it denotes; MALFORMED_JSON stands for a truncated object text).             *)

Fence == [tok |-> "fence"]

Word(w) == [tok |-> "word", w |-> w]

Newline == [tok |-> "nl"]

Blank == [tok |-> "sp"]

JsonText(v) == [tok |-> "value", v |-> v]

\* the text "[1, 2]": JSON, but not an object
ARRAY_JSON == [MALFORMED_JSON EXCEPT !.json = "array"]

\* \s of the regular expressions, and what str.strip removes
IsSpace(t) == t.tok \in {"nl", "sp"}

RECURSIVE LStrip(_)
LStrip(text) ==
    IF text # <<>> /\ IsSpace(Head(text)) THEN LStrip(Tail(text)) ELSE text

RECURSIVE RStrip(_)
RStrip(text) ==
    IF text # <<>> /\ IsSpace(text[Len(text)])
    THEN RStrip(SubSeq(text, 1, Len(text) - 1))
    ELSE text

\* raw_response.strip()
strip(text) == RStrip(LStrip(text))

\* re.sub(r"^```(?:json)?\s*\n?", "", text), for a text that starts with a fence
SubOpeningFence(text) ==
    LET a == Tail(text)
        b == IF a # <<>> /\ Head(a) = Word("json") THEN Tail(a) ELSE a
    IN  LStrip(b)

\* re.sub(r"\n?```\s*$", "", text): a fence with only white space after it, and one
\* newline before it, are removed
SubClosingFence(text) ==
    LET r == RStrip(text)
        n == Len(r)
    IN  IF n > 0 /\ r[n] = Fence
        THEN IF n > 1 /\ r[n - 1] = Newline
             THEN SubSeq(r, 1, n - 2)
             ELSE SubSeq(r, 1, n - 1)
        ELSE text

\* "if text.startswith("```")": both substitutions
StripFences(text) ==
    IF text # <<>> /\ Head(text) = Fence
    THEN SubClosingFence(SubOpeningFence(text))
    ELSE text

\* json.loads(text): the value, or MALFORMED_JSON for JSONDecodeError; white space
\* around the one value is allowed
json_loads(text) ==
    LET t == strip(text)
    IN  IF Len(t) = 1 /\ t[1].tok = "value" /\ t[1].v.json # "malformed"
        THEN t[1].v
        ELSE MALFORMED_JSON

\* mutant of SearchObject: no second parsing attempt
SearchObject_NoFallback(text) == MALFORMED_JSON

\* re.search(r"\{[\s\S]*\}", text) and json.loads of the match: the match runs from
\* the first "{" to the last "}" of the text
SearchObject(text) ==
    LET opening == {i \in 1..Len(text) :
                       text[i].tok = "value" /\ text[i].v.json \in {"object", "malformed"}}
        closing == {i \in 1..Len(text) :
                       text[i].tok = "value" /\ text[i].v.json = "object"}
    IN  IF opening = {} \/ closing = {}
        THEN MALFORMED_JSON
        ELSE LET first == CHOOSE i \in opening : \A j \in opening : i <= j
                 last  == CHOOSE i \in closing : \A j \in closing : j <= i
             IN  IF first = last THEN text[first].v ELSE MALFORMED_JSON

\* the parsing part of validate_ai_response: strip, fences, the two attempts
ParseText(text) ==
    LET t    == StripFences(strip(text))
        data == json_loads(t)
    IN  IF data.json # "malformed" THEN data ELSE SearchObject(t)

\* validate_ai_response on a text
ValidateText(text) == validate_ai_response(ParseText(text))

-----------------------------------------------------------------------------
(* retry_with_backoff: retry.py *)

\* default of the base_delay parameter
base_delay == 1

\* default of the retryable_exceptions parameter
retryable_exceptions == {"AITimeoutError", "HTTPStatusError"}

\* mutant of IsRetryable: "except Exception" in place of the retryable tuple
IsRetryable_Any(exc) == TRUE

\* except retryable_exceptions as exc
IsRetryable(exc) == exc.kind \in retryable_exceptions

\* mutant of Delay: the delay is counted in minutes
Delay_Minutes(a) == 60 * base_delay * (2 ^ a)

\* delay = base_delay * (2 ** attempt)
Delay(a) == base_delay * (2 ^ a)

\* mutant of RaiseLast: the failure of the first attempt is kept and raised
RaiseLast_First(exc) ==
    IF calls = <<>>
    THEN Exc("TypeError", "exceptions must derive from BaseException")
    ELSE calls[1].exc

\* mutant of RaiseLast: a dedicated exception for exhausted retries
RaiseLast_Dedicated(exc) == Exc("RetriesExhaustedError", "all attempts failed")

\* what "raise last_exception" raises: last_exception, or TypeError when it is None
RaiseLast(exc) ==
    IF exc = NoExc
    THEN Exc("TypeError", "exceptions must derive from BaseException")
    ELSE exc

\* mutant of InRange: range(max_retries + 1)
InRange_OffByOne(a, m) == a <= m

\* "for attempt in range(max_retries)": whether iteration a runs
InRange(a, m) == a < m

\* the messages the callable sends: _call_ai builds the prompt on every attempt
MessagesOf(f) ==
    IF f = "_call_ai"
    THEN build_extraction_prompt(document.extracted_text, template)
    ELSE << [role |-> "user", content |-> "ping"] >>

\* one iteration of "for attempt in range(max_retries)" up to the await that ends it:
\* the callable runs (for _call_ai: attempt_counter[0] += 1, then complete) and
\* returns, or raises a retryable exception, or raises another one
RetryAttempt(w) ==
    /\ rpc = "loop"
    /\ InRange(attempt, max_retries)
    /\ LET n == Len(calls) + 1
           r == complete(w, n)
       IN  /\ calls' = Append(calls, [messages |-> MessagesOf(func), wire |-> w.wire,
                                      text |-> r.text, exc |-> r.exc])
           /\ attempt_counter' = IF func = "_call_ai"
                                 THEN attempt_counter + 1
                                 ELSE attempt_counter
           /\ IF r.exc = NoExc
              THEN /\ rpc' = "returned"
                   /\ r_result' = r.text
                   /\ UNCHANGED <<last_exception, r_exc>>
              ELSE IF IsRetryable(r.exc)
              THEN /\ rpc' = "sleep"
                   /\ last_exception' = r.exc
                   /\ UNCHANGED <<r_result, r_exc>>
              ELSE /\ rpc' = "raised"
                   /\ r_exc' = r.exc
                   /\ UNCHANGED <<r_result, last_exception>>
    /\ UNCHANGED <<svcVars, func, max_retries, attempt, sleeps>>
    /\ UNCHANGED workerVars
    /\ UNCHANGED fnVars

\* await asyncio.sleep(delay), then the next iteration
RetrySleep ==
    /\ rpc = "sleep"
    /\ sleeps' = Append(sleeps, Delay(attempt))
    /\ attempt' = attempt + 1
    /\ rpc' = "loop"
    /\ UNCHANGED <<svcVars, attempt_counter, func, max_retries, last_exception, calls,
                   r_result, r_exc>>
    /\ UNCHANGED workerVars
    /\ UNCHANGED fnVars

\* the loop is over: raise last_exception
RetryExhausted ==
    /\ rpc = "loop"
    /\ ~InRange(attempt, max_retries)
    /\ rpc' = "raised"
    /\ r_exc' = RaiseLast(last_exception)
    /\ UNCHANGED <<svcVars, attempt_counter, func, max_retries, attempt, last_exception,
                   sleeps, calls, r_result>>
    /\ UNCHANGED workerVars
    /\ UNCHANGED fnVars

-----------------------------------------------------------------------------
(* AnalysisService.analyze_document: analysis_service.py *)

\* max_retries=3 in the retry_with_backoff call
AnalyzeMaxRetries == 3

\* a caller invokes analyze_document(document_id, tenant_id, template_id)
AnalyzeDocument(d, t, tpl) ==
    /\ pc = "idle"
    /\ pc' = "fetch_document"
    /\ document_id' = d
    /\ tenant_id' = t
    /\ template_id' = tpl
    /\ UNCHANGED <<document, template, analysis, added_objects, flush_calls,
                   commit_calls, refresh_calls, status_writes, raised,
                   attempt_counter, retryVars>>
    /\ UNCHANGED workerVars
    /\ UNCHANGED fnVars

\* steps 1 and 2: fetch the document with tenant isolation, validate its text
FetchDocument ==
    /\ pc = "fetch_document"
    /\ LET doc == ScalarOneOrNone(Documents, document_id, tenant_id)
       IN  IF doc = NoRow
           THEN /\ raised' = Exc("DocumentNotFoundError",
                                 "Document " \o document_id \o " not found for tenant "
                                     \o tenant_id)
                /\ pc' = "raised"
                /\ UNCHANGED document
           ELSE IF ~Truthy(doc.extracted_text)
           THEN /\ raised' = Exc("EmptyDocumentError",
                                 "Document " \o document_id \o " has no extracted text")
                /\ pc' = "raised"
                /\ UNCHANGED document
           ELSE /\ document' = doc
                /\ pc' = IF template_id # None THEN "fetch_template" ELSE "create_analysis"
                /\ UNCHANGED raised
    /\ UNCHANGED <<document_id, tenant_id, template_id, template, analysis,
                   added_objects, flush_calls, commit_calls, refresh_calls,
                   status_writes, attempt_counter, retryVars>>
    /\ UNCHANGED workerVars
    /\ UNCHANGED fnVars

\* step 3: fetch the template; a miss is logged and the analysis goes on
FetchTemplate ==
    /\ pc = "fetch_template"
    /\ template' = ScalarOneOrNone(Templates, template_id, tenant_id)
    /\ pc' = "create_analysis"
    /\ UNCHANGED <<document_id, tenant_id, template_id, document, analysis,
                   added_objects, flush_calls, commit_calls, refresh_calls,
                   status_writes, raised, attempt_counter, retryVars>>
    /\ UNCHANGED workerVars
    /\ UNCHANGED fnVars

\* mutant of NewAnalysis: template_id is the requested id, found or not
NewAnalysis_RequestedTemplate(doc, tmpl) ==
    [ id            |-> "a1",
      document_id   |-> doc.id,
      tenant_id     |-> doc.tenant_id,
      template_id   |-> template_id,
      status        |-> "PROCESSING",
      started_at    |-> "now",
      completed_at  |-> None,
      error_message |-> None,
      retry_count   |-> 0 ]

\* the Analysis(...) constructor call; flush assigns the id
NewAnalysis(doc, tmpl) ==
    [ id            |-> "a1",
      document_id   |-> doc.id,
      tenant_id     |-> doc.tenant_id,
      template_id   |-> IF tmpl # NoRow THEN tmpl.id ELSE None,
      status        |-> "PROCESSING",
      started_at    |-> "now",
      completed_at  |-> None,
      error_message |-> None,
      retry_count   |-> 0 ]

\* mutant of CreateAnalysis: the record is built but neither added nor flushed
CreateAnalysis_NotPersisted ==
    /\ pc = "create_analysis"
    /\ analysis' = NewAnalysis(document, template)
    /\ UNCHANGED <<added_objects, flush_calls>>
    /\ attempt_counter' = 0
    /\ func' = "_call_ai"
    /\ max_retries' = AnalyzeMaxRetries
    /\ attempt' = 0
    /\ last_exception' = NoExc
    /\ rpc' = "loop"
    /\ pc' = "retry"
    /\ UNCHANGED <<document_id, tenant_id, template_id, document, template,
                   commit_calls, refresh_calls, status_writes, raised, sleeps, calls,
                   r_result, r_exc>>
    /\ UNCHANGED workerVars
    /\ UNCHANGED fnVars

\* step 4: create the Analysis record, add, flush; then enter retry_with_backoff
CreateAnalysis ==
    /\ pc = "create_analysis"
    /\ analysis' = NewAnalysis(document, template)
    /\ added_objects' = Append(added_objects, [type |-> "Analysis", id |-> "a1"])
    /\ flush_calls' = flush_calls + 1
    /\ attempt_counter' = 0
    /\ func' = "_call_ai"
    /\ max_retries' = AnalyzeMaxRetries
    /\ attempt' = 0
    /\ last_exception' = NoExc
    /\ rpc' = "loop"
    /\ pc' = "retry"
    /\ UNCHANGED <<document_id, tenant_id, template_id, document, template,
                   commit_calls, refresh_calls, status_writes, raised, sleeps, calls,
                   r_result, r_exc>>
    /\ UNCHANGED workerVars
    /\ UNCHANGED fnVars

\* mutant of ExceptStatus: no clause of its own for AITimeoutError
ExceptStatus_TimeoutAsFailed(exc) == "FAILED"

\* mutant of ExceptStatus: the catch-all clause forgets to set the status
ExceptStatus_NoCatchAll(exc) ==
    IF exc.kind = "AITimeoutError" THEN "TIMED_OUT"
    ELSE IF exc.kind = "AIResponseValidationError" THEN "FAILED"
    ELSE "PROCESSING"

\* the except clauses: AITimeoutError -> TIMED_OUT, anything else -> FAILED
ExceptStatus(exc) ==
    IF exc.kind = "AITimeoutError" THEN "TIMED_OUT" ELSE "FAILED"

\* mutant of RetryCount: the attempt counter itself is stored
RetryCount_NoMinusOne(n) == n

\* analysis.retry_count = max(attempt_counter[0] - 1, 0)
RetryCount(n) == IF n - 1 > 0 THEN n - 1 ELSE 0

\* mutant of NewClause: analysis_id is not passed to the constructor
NewClause_NoParent(a, c) ==
    [ type             |-> "Clause",
      analysis_id      |-> None,
      clause_type      |-> c.clause_type,
      risk_level       |-> c.risk_level,
      title            |-> c.title,
      page_number      |-> c.page_number,
      confidence_score |-> c.confidence_score ]

\* Clause(analysis_id=analysis.id, clause_type=ClauseType(...), ...)
NewClause(a, c) ==
    [ type             |-> "Clause",
      analysis_id      |-> a.id,
      clause_type      |-> c.clause_type,
      risk_level       |-> c.risk_level,
      title            |-> c.title,
      page_number      |-> c.page_number,
      confidence_score |-> c.confidence_score ]

\* the exception the try block ends with (NoExc when it runs to its end)
TryException ==
    IF rpc = "raised" THEN r_exc ELSE validate_ai_response(r_result).exc

\* mutant of TryClauses: the loop over validated.clauses misses its last entry
TryClauses_DropLast ==
    IF TryException = NoExc
    THEN LET cs == validate_ai_response(r_result).value.clauses
         IN  [i \in 1..(Len(cs) - 1) |-> NewClause(analysis, cs[i])]
    ELSE <<>>

\* the objects the try block adds to the session
TryClauses ==
    IF TryException = NoExc
    THEN LET cs == validate_ai_response(r_result).value.clauses
         IN  [i \in 1..Len(cs) |-> NewClause(analysis, cs[i])]
    ELSE <<>>

\* mutant of HandleOutcome: completed_at is stamped in finally, on every branch
HandleOutcome_StampAlways ==
    /\ pc = "retry"
    /\ rpc \in {"returned", "raised"}
    /\ LET exc == TryException
       IN  analysis' =
             [analysis EXCEPT
                !.status        = IF exc = NoExc THEN "COMPLETED" ELSE ExceptStatus(exc),
                !.completed_at  = "now",
                !.error_message = IF exc = NoExc THEN @ ELSE exc.message,
                !.retry_count   = RetryCount(attempt_counter)]
    /\ added_objects' = added_objects \o TryClauses
    /\ status_writes' = status_writes + 1
    /\ pc' = "commit"
    /\ UNCHANGED <<document_id, tenant_id, template_id, document, template,
                   flush_calls, commit_calls, refresh_calls, raised, attempt_counter,
                   retryVars>>
    /\ UNCHANGED workerVars
    /\ UNCHANGED fnVars

\* step 5 after retry_with_backoff is over: validate, add the clauses, set the
\* status (try / except), set retry_count (finally), up to the await of commit
HandleOutcome ==
    /\ pc = "retry"
    /\ rpc \in {"returned", "raised"}
    /\ LET exc == TryException
       IN  analysis' =
             [analysis EXCEPT
                !.status        = IF exc = NoExc THEN "COMPLETED" ELSE ExceptStatus(exc),
                !.completed_at  = IF exc = NoExc THEN "now" ELSE @,
                !.error_message = IF exc = NoExc THEN @ ELSE exc.message,
                !.retry_count   = RetryCount(attempt_counter)]
    /\ added_objects' = added_objects \o TryClauses
    /\ status_writes' = status_writes + 1
    /\ pc' = "commit"
    /\ UNCHANGED <<document_id, tenant_id, template_id, document, template,
                   flush_calls, commit_calls, refresh_calls, raised, attempt_counter,
                   retryVars>>
    /\ UNCHANGED workerVars
    /\ UNCHANGED fnVars

\* mutant of Commit: the commit sits at the end of the try block, not in finally
Commit_OnlyOnSuccess ==
    /\ pc = "commit"
    /\ commit_calls' = IF analysis.status = "COMPLETED"
                       THEN commit_calls + 1
                       ELSE commit_calls
    /\ \/ /\ pc' = "refresh"
          /\ UNCHANGED raised
       \/ /\ analysis.status = "COMPLETED"
          /\ pc' = "raised"
          /\ raised' = Exc("DBAPIError", "commit failed")
    /\ UNCHANGED <<document_id, tenant_id, template_id, document, template, analysis,
                   added_objects, flush_calls, refresh_calls, status_writes,
                   attempt_counter, retryVars>>
    /\ UNCHANGED workerVars
    /\ UNCHANGED fnVars

\* await self._db.commit(): it returns, or the storage raises
Commit ==
    /\ pc = "commit"
    /\ commit_calls' = commit_calls + 1
    /\ \/ /\ pc' = "refresh"
          /\ UNCHANGED raised
       \/ /\ pc' = "raised"
          /\ raised' = Exc("DBAPIError", "commit failed")
    /\ UNCHANGED <<document_id, tenant_id, template_id, document, template, analysis,
                   added_objects, flush_calls, refresh_calls, status_writes,
                   attempt_counter, retryVars>>
    /\ UNCHANGED workerVars
    /\ UNCHANGED fnVars

\* step 6: await self._db.refresh(analysis); return analysis
Refresh ==
    /\ pc = "refresh"
    /\ refresh_calls' = refresh_calls + 1
    /\ \/ /\ pc' = "returned"
          /\ UNCHANGED raised
       \/ /\ pc' = "raised"
          /\ raised' = Exc("DBAPIError", "refresh failed")
    /\ UNCHANGED <<document_id, tenant_id, template_id, document, template, analysis,
                   added_objects, flush_calls, commit_calls, status_writes,
                   attempt_counter, retryVars>>
    /\ UNCHANGED workerVars
    /\ UNCHANGED fnVars

-----------------------------------------------------------------------------
(* AnalysisWorker: workers/worker.py *)

Workers == {"w1", "w2"}

\* jobs {document_id, tenant_id, message_id}: J1 and J2 are two messages for the same
\* document; J3 asks for a document whose extracted text is empty
Jobs ==
    { [document_id |-> "d1", tenant_id |-> "t1", message_id |-> "m1"],
      [document_id |-> "d1", tenant_id |-> "t1", message_id |-> "m2"],
      [document_id |-> "d3", tenant_id |-> "t1", message_id |-> "m3"] }

\* the documents the jobs name: one lock key each
LockKeys == {j.document_id : j \in Jobs}

\* what service.analyze_document(document_id, tenant_id) can end with for a job:
\* a precondition failure, or, past the preconditions, a returned Analysis or a
\* storage failure of the final commit / refresh
AnalyzeOutcomes(j) ==
    LET doc == ScalarOneOrNone(Documents, j.document_id, j.tenant_id)
    IN  IF doc = NoRow THEN {"DocumentNotFoundError"}
        ELSE IF ~Truthy(doc.extracted_text) THEN {"EmptyDocumentError"}
        ELSE {"returned", "DBAPIError"}

\* mutant of SetNX: a plain SET, without nx=True
SetNX_Plain(keys, m) == [set |-> TRUE, keys |-> keys \cup {m}]

\* redis.set(dedup_key, "1", nx=True, ex=3600): whether the key was set, and the keys
SetNX(keys, m) ==
    IF m \in keys
    THEN [set |-> FALSE, keys |-> keys]
    ELSE [set |-> TRUE, keys |-> keys \cup {m}]

\* mutant of AfterDedup: the result of the set is not looked at
AfterDedup_Ignore(was_set) == "lock"

\* "if not already_processed": the duplicate branch, or on to the lock
AfterDedup(was_set) == IF was_set THEN "lock" ELSE "skip_ack"

\* mutant of AfterSkipAck: the return after the duplicate's ack is missing
AfterSkipAck_NoReturn == "lock"

\* the duplicate branch returns after its ack
AfterSkipAck == "loop"

\* self._redis.lock(lock_key, timeout=300): seconds the lock is held at most
lock_timeout == 300

\* mutant of CanAcquire: the lock is taken without looking at its holder
CanAcquire_Always(held, key) == TRUE

\* redis.lock(lock_key, timeout=300): the lock can be taken when nobody holds it
CanAcquire(held, key) == held[key] = None

\* mutant of AfterRequeue: lock contention is handled by the except Exception clause
\* as well, which deletes the dedup key
AfterRequeue_ThenDelete == "delete"

\* "return" in the LockAcquisitionError clause: the finally clause still runs
AfterRequeue == "ack"

\* mutant of AfterRelease: the except Exception clause does not delete the key
AfterRelease_NoDelete(outcome) == "ack"

\* leaving the "async with" block: normally on to finally, with an exception to the
\* except Exception clause
AfterRelease(outcome) == IF outcome = "analyze_returned" THEN "ack" ELSE "delete"

\* "while not self._shutdown_event.is_set()"
LoopCheck(w) ==
    /\ wpc[w] = "loop"
    /\ wpc' = [wpc EXCEPT ![w] = IF shutdown_event[w] THEN "stopped" ELSE "dequeue"]
    /\ UNCHANGED <<fnVars, svcVars, attempt_counter, retryVars, queue, dedup_keys, locks, job,
                   shutdown_event, flag_at_dequeue, trace>>

\* job = await self._queue.dequeue(timeout=1.0): a job, or None after the timeout;
\* a job is handed to _process_job in a task that is awaited
Dequeue(w) ==
    /\ wpc[w] = "dequeue"
    /\ \/ \E j \in Jobs :
            /\ queue[j] > 0
            /\ queue' = [queue EXCEPT ![j] = @ - 1]
            /\ job' = [job EXCEPT ![w] = j]
            /\ flag_at_dequeue' = [flag_at_dequeue EXCEPT ![w] = shutdown_event[w]]
            /\ trace' = [trace EXCEPT ![w] = <<>>]
            /\ wpc' = [wpc EXCEPT ![w] = "process"]
       \/ /\ wpc' = [wpc EXCEPT ![w] = "loop"]
          /\ UNCHANGED <<queue, job, flag_at_dequeue, trace>>
    /\ UNCHANGED <<fnVars, svcVars, attempt_counter, retryVars, dedup_keys, locks,
                   shutdown_event>>

\* deduplication: await self._redis.set(dedup_key, "1", nx=True, ex=3600)
Dedup(w) ==
    /\ wpc[w] = "process"
    /\ LET r == SetNX(dedup_keys, job[w].message_id)
       IN  /\ dedup_keys' = r.keys
           /\ trace' = [trace EXCEPT
                          ![w] = Append(@, IF r.set THEN "set_nx_new" ELSE "set_nx_exists")]
           /\ wpc' = [wpc EXCEPT ![w] = AfterDedup(r.set)]
    /\ UNCHANGED <<fnVars, svcVars, attempt_counter, retryVars, queue, locks, job,
                   shutdown_event, flag_at_dequeue>>

\* duplicate: await self._queue.ack(job); return
SkipAck(w) ==
    /\ wpc[w] = "skip_ack"
    /\ trace' = [trace EXCEPT ![w] = Append(@, "ack")]
    /\ wpc' = [wpc EXCEPT ![w] = AfterSkipAck]
    /\ UNCHANGED <<fnVars, svcVars, attempt_counter, retryVars, queue, dedup_keys, locks, job,
                   shutdown_event, flag_at_dequeue>>

\* async with self._redis.lock(lock_key, timeout=300): entered, or
\* LockAcquisitionError when another worker holds the lock
AcquireLock(w) ==
    /\ wpc[w] = "lock"
    /\ IF CanAcquire(locks, job[w].document_id)
       THEN /\ locks' = [locks EXCEPT ![job[w].document_id] = w]
            /\ trace' = [trace EXCEPT ![w] = Append(@, "lock_acquired")]
            /\ wpc' = [wpc EXCEPT ![w] = "locked"]
       ELSE /\ trace' = [trace EXCEPT ![w] = Append(@, "lock_failed")]
            /\ wpc' = [wpc EXCEPT ![w] = "requeue"]
            /\ UNCHANGED locks
    /\ UNCHANGED <<fnVars, svcVars, attempt_counter, retryVars, queue, dedup_keys, job,
                   shutdown_event, flag_at_dequeue>>

\* the session is opened and service.analyze_document(...) is entered
InvokeOrchestrator(w) ==
    /\ wpc[w] = "locked"
    /\ trace' = [trace EXCEPT ![w] = Append(@, "analyze_start")]
    /\ wpc' = [wpc EXCEPT ![w] = "in_analyze"]
    /\ UNCHANGED <<fnVars, svcVars, attempt_counter, retryVars, queue, dedup_keys, locks, job,
                   shutdown_event, flag_at_dequeue>>

\* analyze_document returns the Analysis or raises
OrchestratorEnd(w) ==
    /\ wpc[w] = "in_analyze"
    /\ \E o \in AnalyzeOutcomes(job[w]) :
          trace' = [trace EXCEPT
                      ![w] = Append(@, IF o = "returned" THEN "analyze_returned"
                                                         ELSE "analyze_raised")]
    /\ wpc' = [wpc EXCEPT ![w] = "release"]
    /\ UNCHANGED <<fnVars, svcVars, attempt_counter, retryVars, queue, dedup_keys, locks, job,
                   shutdown_event, flag_at_dequeue>>

\* mutant of ReleaseLock: the lock is released at the end of the block only, not
\* when an exception leaves it
ReleaseLock_OnlyOnReturn(w) ==
    /\ wpc[w] = "release"
    /\ locks' = IF trace[w][Len(trace[w])] = "analyze_returned"
                THEN [locks EXCEPT ![job[w].document_id] = None]
                ELSE locks
    /\ wpc' = [wpc EXCEPT ![w] = AfterRelease(trace[w][Len(trace[w])])]
    /\ trace' = [trace EXCEPT ![w] = Append(@, "lock_released")]
    /\ UNCHANGED <<fnVars, svcVars, attempt_counter, retryVars, queue, dedup_keys, job,
                   shutdown_event, flag_at_dequeue>>

\* the "async with" block of the lock is left: the lock is released, whether the
\* block ended normally or with an exception
ReleaseLock(w) ==
    /\ wpc[w] = "release"
    /\ locks' = [locks EXCEPT ![job[w].document_id] = None]
    /\ wpc' = [wpc EXCEPT ![w] = AfterRelease(trace[w][Len(trace[w])])]
    /\ trace' = [trace EXCEPT ![w] = Append(@, "lock_released")]
    /\ UNCHANGED <<fnVars, svcVars, attempt_counter, retryVars, queue, dedup_keys, job,
                   shutdown_event, flag_at_dequeue>>

\* except LockAcquisitionError: await self._queue.requeue(job, delay=30); return
Requeue(w) ==
    /\ wpc[w] = "requeue"
    /\ queue' = [queue EXCEPT ![job[w]] = @ + 1]
    /\ trace' = [trace EXCEPT ![w] = Append(@, "requeue")]
    /\ wpc' = [wpc EXCEPT ![w] = AfterRequeue]
    /\ UNCHANGED <<fnVars, svcVars, attempt_counter, retryVars, dedup_keys, locks, job,
                   shutdown_event, flag_at_dequeue>>

\* except Exception: await self._redis.delete(dedup_key)
DeleteMarker(w) ==
    /\ wpc[w] = "delete"
    /\ dedup_keys' = dedup_keys \ {job[w].message_id}
    /\ trace' = [trace EXCEPT ![w] = Append(@, "delete")]
    /\ wpc' = [wpc EXCEPT ![w] = "ack"]
    /\ UNCHANGED <<fnVars, svcVars, attempt_counter, retryVars, queue, locks, job,
                   shutdown_event, flag_at_dequeue>>

\* finally: await self._queue.ack(job); back in the loop of start
Ack(w) ==
    /\ wpc[w] = "ack"
    /\ trace' = [trace EXCEPT ![w] = Append(@, "ack")]
    /\ wpc' = [wpc EXCEPT ![w] = "loop"]
    /\ UNCHANGED <<fnVars, svcVars, attempt_counter, retryVars, queue, dedup_keys, locks, job,
                   shutdown_event, flag_at_dequeue>>

\* mutant of AfterEscape: an exception leaving _process_job ends the loop
AfterEscape_Stop == "stopped"

\* start: except Exception: logger.exception(...); await asyncio.sleep(1) -- an
\* exception that leaves the awaited task is caught in the loop, which backs off
AfterEscape == "backoff"

\* self._redis.set raises: no handler in _process_job, the exception leaves it
DedupRaises(w) ==
    /\ wpc[w] = "process"
    /\ trace' = [trace EXCEPT ![w] = Append(@, "set_raised")]
    /\ wpc' = [wpc EXCEPT ![w] = AfterEscape]
    /\ UNCHANGED <<fnVars, svcVars, attempt_counter, retryVars, queue, dedup_keys, locks, job,
                   shutdown_event, flag_at_dequeue>>

\* duplicate: self._queue.ack raises before the try statement, the exception
\* leaves _process_job
SkipAckRaises(w) ==
    /\ wpc[w] = "skip_ack"
    /\ trace' = [trace EXCEPT ![w] = Append(@, "ack_raised")]
    /\ wpc' = [wpc EXCEPT ![w] = AfterEscape]
    /\ UNCHANGED <<fnVars, svcVars, attempt_counter, retryVars, queue, dedup_keys, locks, job,
                   shutdown_event, flag_at_dequeue>>

\* self._queue.requeue raises inside the except clause: finally still runs, then
\* the exception leaves _process_job
RequeueRaises(w) ==
    /\ wpc[w] = "requeue"
    /\ trace' = [trace EXCEPT ![w] = Append(@, "requeue_raised")]
    /\ wpc' = [wpc EXCEPT ![w] = "ack_raising"]
    /\ UNCHANGED <<fnVars, svcVars, attempt_counter, retryVars, queue, dedup_keys, locks, job,
                   shutdown_event, flag_at_dequeue>>

\* self._redis.delete raises inside the except clause: finally still runs, then
\* the exception leaves _process_job
DeleteRaises(w) ==
    /\ wpc[w] = "delete"
    /\ trace' = [trace EXCEPT ![w] = Append(@, "delete_raised")]
    /\ wpc' = [wpc EXCEPT ![w] = "ack_raising"]
    /\ UNCHANGED <<fnVars, svcVars, attempt_counter, retryVars, queue, dedup_keys, locks, job,
                   shutdown_event, flag_at_dequeue>>

\* finally: self._queue.ack while an exception is in flight; whether the ack
\* succeeds or raises, an exception leaves _process_job
AckWhileRaising(w) ==
    /\ wpc[w] = "ack_raising"
    /\ \E r \in {"ack", "ack_raised"} : trace' = [trace EXCEPT ![w] = Append(@, r)]
    /\ wpc' = [wpc EXCEPT ![w] = AfterEscape]
    /\ UNCHANGED <<fnVars, svcVars, attempt_counter, retryVars, queue, dedup_keys, locks, job,
                   shutdown_event, flag_at_dequeue>>

\* finally: self._queue.ack raises, the exception leaves _process_job
AckRaises(w) ==
    /\ wpc[w] = "ack"
    /\ trace' = [trace EXCEPT ![w] = Append(@, "ack_raised")]
    /\ wpc' = [wpc EXCEPT ![w] = AfterEscape]
    /\ UNCHANGED <<fnVars, svcVars, attempt_counter, retryVars, queue, dedup_keys, locks, job,
                   shutdown_event, flag_at_dequeue>>

\* await asyncio.sleep(1) is over: back at the test of the while loop
BackOff(w) ==
    /\ wpc[w] = "backoff"
    /\ wpc' = [wpc EXCEPT ![w] = "loop"]
    /\ UNCHANGED <<fnVars, svcVars, attempt_counter, retryVars, queue, dedup_keys, locks, job,
                   shutdown_event, flag_at_dequeue, trace>>

\* mutant of RequestShutdown: the handler also cancels the task of the job in flight
RequestShutdown_Cancel(w) ==
    /\ ~shutdown_event[w]
    /\ wpc[w] # "stopped"
    /\ shutdown_event' = [shutdown_event EXCEPT ![w] = TRUE]
    /\ wpc' = [wpc EXCEPT ![w] = IF @ \in {"loop", "dequeue"} THEN @ ELSE "stopped"]
    /\ UNCHANGED <<fnVars, svcVars, attempt_counter, retryVars, queue, dedup_keys, locks,
                   job, flag_at_dequeue, trace>>

\* _request_shutdown: the signal handler sets the event; nothing is cancelled
RequestShutdown(w) ==
    /\ ~shutdown_event[w]
    /\ wpc[w] # "stopped"
    /\ shutdown_event' = [shutdown_event EXCEPT ![w] = TRUE]
    /\ UNCHANGED <<fnVars, svcVars, attempt_counter, retryVars, queue, dedup_keys, locks, wpc,
                   job, flag_at_dequeue, trace>>

\* no validate_ai_response or complete call under check
NoFunctionCall ==
    /\ raw_text = <<>>
    /\ validated = NoRow
    /\ messages = <<>>
    /\ body = NoRow
    /\ fpc = "idle"

\* the workers and their collaborators when no worker runs
NoWorkers ==
    /\ queue = [j \in Jobs |-> 0]
    /\ dedup_keys = {}
    /\ locks = [k \in LockKeys |-> None]
    /\ wpc = [w \in Workers |-> "stopped"]
    /\ job = [w \in Workers |-> NoRow]
    /\ shutdown_event = [w \in Workers |-> FALSE]
    /\ flag_at_dequeue = [w \in Workers |-> FALSE]
    /\ trace = [w \in Workers |-> <<>>]

-----------------------------------------------------------------------------
(* validate_ai_response and AnthropicClient.complete called on their own *)

\* confidence scores tried, in hundredths: below 0.0, the two ends, one between them,
\* above 1.0
ConfidenceScores == {0 - 1, 0, 95, 100, 101, 150}

\* clause_type values tried: the enum, and two strings outside it
ClauseTypeInputs == ClauseType \cup {"UNKNOWN_TYPE", "liability"}

\* risk_level values tried: the enum, and two strings outside it
RiskLevelInputs == RiskLevel \cup {"EXTREME", "high"}

\* a clause that differs from a valid one in the three constrained fields
ClauseInputs ==
    { [SampleClause(1) EXCEPT !.clause_type = ct, !.risk_level = rl,
                              !.confidence_score = cs] :
        ct \in ClauseTypeInputs, rl \in RiskLevelInputs, cs \in ConfidenceScores }

\* clause lists: up to MaxClauses valid clauses, one of them replaced by a clause of
\* ClauseInputs
ClauseLists ==
    { <<>> } \cup
    UNION { { [ValidResponse(n).clauses EXCEPT ![k] = c] :
                k \in 1..n, c \in ClauseInputs } : n \in 1..MaxClauses }

\* payloads: every field but is_contract, language and one clause is valid
Payloads ==
    { [json |-> "object", is_contract |-> ic, language |-> lg, clauses |-> cl] :
        ic \in BOOLEAN, lg \in {"English", ""},
        cl \in ClauseLists }

\* ways a text reaches the validator: bare, padded with white space, inside a code
\* fence with the tag json, with no tag or with another tag, with or without
\* newlines, or after a word of prose
Wrappings ==
    {"bare", "padded", "fence_json", "fence", "fence_tag", "fence_inline",
     "fence_padded", "prose"}

\* the fenced ones
FenceWrappings == {"fence_json", "fence", "fence_tag", "fence_inline", "fence_padded"}

Wrap(kind, text) ==
    CASE kind = "bare"         -> text
      [] kind = "padded"       -> <<Blank, Newline>> \o text \o <<Newline>>
      [] kind = "fence_json"   -> <<Fence, Word("json"), Newline>> \o text
                                      \o <<Newline, Fence>>
      [] kind = "fence"        -> <<Fence, Newline>> \o text \o <<Newline, Fence>>
      [] kind = "fence_tag"    -> <<Fence, Word("python"), Newline>> \o text
                                      \o <<Newline, Fence>>
      [] kind = "fence_inline" -> <<Fence, Word("json")>> \o text \o <<Fence>>
      [] kind = "fence_padded" -> <<Newline, Fence, Word("json"), Newline>> \o text
                                      \o <<Newline, Fence, Newline>>
      [] OTHER                 -> <<Word("Here"), Blank>> \o text

\* message lists handed to complete: up to MaxMessages messages
MessageInputs ==
    { [role |-> r, content |-> c] :
        r \in {"system", "user", "assistant"}, c \in {"c1", "c2"} }

MessageLists == UNION { [1..n -> MessageInputs] : n \in 0..MaxMessages }

\* the loop "for msg in messages" of AnthropicClient.complete: system is overwritten
\* by every system message, the other messages are appended to non_system
RECURSIVE SplitMessages(_, _, _)
SplitMessages(msgs, system, non_system) ==
    IF msgs = <<>>
    THEN [system |-> system, non_system |-> non_system]
    ELSE IF Head(msgs).role = "system"
    THEN SplitMessages(Tail(msgs), Head(msgs).content, non_system)
    ELSE SplitMessages(Tail(msgs), system, Append(non_system, Head(msgs)))

\* the request body of AnthropicClient.complete; system is None when the key is not
\* set ("if system:")
AnthropicBody(msgs, model) ==
    LET split == SplitMessages(msgs, "", <<>>)
    IN  [ model      |-> model,
          max_tokens |-> 4096,
          messages   |-> split.non_system,
          system     |-> IF Truthy(split.system) THEN split.system ELSE None ]

\* AnthropicClient.complete up to the post of the body
BuildBody ==
    /\ fpc = "complete"
    /\ body' = AnthropicBody(messages, "claude-sonnet-4-5-20250514")
    /\ fpc' = "posted"
    /\ UNCHANGED <<raw_text, validated, messages>>
    /\ UNCHANGED <<svcVars, attempt_counter, retryVars, workerVars>>

\* no analyze_document and no retry_with_backoff call
NoAnalyzeCall ==
    /\ pc = "function_only"
    /\ document_id = None
    /\ tenant_id = None
    /\ template_id = None
    /\ document = NoRow
    /\ template = NoRow
    /\ analysis = NoRow
    /\ added_objects = <<>>
    /\ flush_calls = 0
    /\ commit_calls = 0
    /\ refresh_calls = 0
    /\ attempt_counter = 0
    /\ status_writes = 0
    /\ raised = NoExc
    /\ func = "complete"
    /\ max_retries = 0
    /\ rpc = "idle"
    /\ attempt = 0
    /\ last_exception = NoExc
    /\ sleeps = <<>>
    /\ calls = <<>>
    /\ r_result = NoRow
    /\ r_exc = NoExc

\* validate_ai_response(raw_response) runs: it returns the typed result or raises
Validate ==
    /\ fpc = "validate"
    /\ validated' = ValidateText(raw_text)
    /\ fpc' = "done"
    /\ UNCHANGED <<raw_text, messages, body>>
    /\ UNCHANGED <<svcVars, attempt_counter, retryVars, workerVars>>

-----------------------------------------------------------------------------
(* Specifications *)

\* the service and its session right after construction
Init ==
    /\ pc = "idle"
    /\ document_id = None
    /\ tenant_id = None
    /\ template_id = None
    /\ document = NoRow
    /\ template = NoRow
    /\ analysis = NoRow
    /\ added_objects = <<>>
    /\ flush_calls = 0
    /\ commit_calls = 0
    /\ refresh_calls = 0
    /\ attempt_counter = 0
    /\ status_writes = 0
    /\ raised = NoExc
    /\ func = "_call_ai"
    /\ max_retries = AnalyzeMaxRetries
    /\ rpc = "idle"
    /\ attempt = 0
    /\ last_exception = NoExc
    /\ sleeps = <<>>
    /\ calls = <<>>
    /\ r_result = NoRow
    /\ r_exc = NoExc
    /\ NoWorkers
    /\ NoFunctionCall

Next ==
    \/ \E d \in DocumentIds, t \in Tenants, tpl \in TemplateIds : AnalyzeDocument(d, t, tpl)
    \/ FetchDocument
    \/ FetchTemplate
    \/ CreateAnalysis
    \/ \E w \in WireOutcomes : RetryAttempt(w)
    \/ RetrySleep
    \/ RetryExhausted
    \/ HandleOutcome
    \/ Commit
    \/ Refresh

Spec == Init /\ [][Next]_vars

\* retry_with_backoff(complete, max_retries=m) called on its own
InitRetry ==
    /\ pc = "retry_only"
    /\ document_id = None
    /\ tenant_id = None
    /\ template_id = None
    /\ document = NoRow
    /\ template = NoRow
    /\ analysis = NoRow
    /\ added_objects = <<>>
    /\ flush_calls = 0
    /\ commit_calls = 0
    /\ refresh_calls = 0
    /\ attempt_counter = 0
    /\ status_writes = 0
    /\ raised = NoExc
    /\ func = "complete"
    /\ max_retries \in 0..MaxRetriesBound
    /\ rpc = "loop"
    /\ attempt = 0
    /\ last_exception = NoExc
    /\ sleeps = <<>>
    /\ calls = <<>>
    /\ r_result = NoRow
    /\ r_exc = NoExc
    /\ NoWorkers
    /\ NoFunctionCall

NextRetry ==
    \/ \E w \in WireOutcomes : RetryAttempt(w)
    \/ RetrySleep
    \/ RetryExhausted

SpecRetry == InitRetry /\ [][NextRetry]_vars

\* the workers started, each at the top of its loop, on a queue that holds up to
\* MaxDeliveries deliveries of each job (a message may be delivered more than once)
InitWorker ==
    /\ pc = "worker_only"
    /\ document_id = None
    /\ tenant_id = None
    /\ template_id = None
    /\ document = NoRow
    /\ template = NoRow
    /\ analysis = NoRow
    /\ added_objects = <<>>
    /\ flush_calls = 0
    /\ commit_calls = 0
    /\ refresh_calls = 0
    /\ attempt_counter = 0
    /\ status_writes = 0
    /\ raised = NoExc
    /\ func = "_call_ai"
    /\ max_retries = AnalyzeMaxRetries
    /\ rpc = "idle"
    /\ attempt = 0
    /\ last_exception = NoExc
    /\ sleeps = <<>>
    /\ calls = <<>>
    /\ r_result = NoRow
    /\ r_exc = NoExc
    /\ queue \in [Jobs -> 0..MaxDeliveries]
    /\ dedup_keys = {}
    /\ locks = [k \in LockKeys |-> None]
    /\ wpc = [w \in Workers |-> "loop"]
    /\ job = [w \in Workers |-> NoRow]
    /\ shutdown_event = [w \in Workers |-> FALSE]
    /\ flag_at_dequeue = [w \in Workers |-> FALSE]
    /\ trace = [w \in Workers |-> <<>>]
    /\ NoFunctionCall

NextWorker ==
    \/ \E w \in Workers : LoopCheck(w)
    \/ \E w \in Workers : Dequeue(w)
    \/ \E w \in Workers : Dedup(w)
    \/ \E w \in Workers : SkipAck(w)
    \/ \E w \in Workers : AcquireLock(w)
    \/ \E w \in Workers : InvokeOrchestrator(w)
    \/ \E w \in Workers : OrchestratorEnd(w)
    \/ \E w \in Workers : ReleaseLock(w)
    \/ \E w \in Workers : Requeue(w)
    \/ \E w \in Workers : DeleteMarker(w)
    \/ \E w \in Workers : Ack(w)
    \/ \E w \in Workers : RequestShutdown(w)

SpecWorker == InitWorker /\ [][NextWorker]_vars

\* one step of the coroutine of worker w: the event loop resumes a coroutine whose
\* await has completed, and every await of this code completes (dequeue has a timeout)
WorkerStep(w) ==
    \/ LoopCheck(w) \/ Dequeue(w) \/ Dedup(w) \/ SkipAck(w) \/ AcquireLock(w)
    \/ InvokeOrchestrator(w) \/ OrchestratorEnd(w) \/ ReleaseLock(w) \/ Requeue(w)
    \/ DeleteMarker(w) \/ Ack(w)

\* the workers started on a queue that holds up to MaxFairDeliveries deliveries of
\* each job (a re-queue after lock contention still adds deliveries)
InitWorkerFair == InitWorker /\ \A j \in Jobs : queue[j] <= MaxFairDeliveries

SpecWorkerFair ==
    /\ InitWorkerFair
    /\ [][NextWorker]_vars
    /\ \A w \in Workers : WF_vars(WorkerStep(w))

\* a redis or queue call of _process_job raises, or the back-off after it ends
FaultStep(w) ==
    \/ DedupRaises(w) \/ SkipAckRaises(w) \/ RequeueRaises(w) \/ DeleteRaises(w)
    \/ AckWhileRaising(w) \/ AckRaises(w) \/ BackOff(w)

\* the workers with redis and queue calls that may raise
NextWorkerFaulty ==
    \/ NextWorker
    \/ \E w \in Workers : DedupRaises(w)
    \/ \E w \in Workers : SkipAckRaises(w)
    \/ \E w \in Workers : RequeueRaises(w)
    \/ \E w \in Workers : DeleteRaises(w)
    \/ \E w \in Workers : AckWhileRaising(w)
    \/ \E w \in Workers : AckRaises(w)
    \/ \E w \in Workers : BackOff(w)

\* the workers started on a queue that holds deliveries of the jobs of one
\* document only, no two jobs both at the largest number of deliveries
InitWorkerFaulty ==
    /\ InitWorkerFair
    /\ \A j \in Jobs : queue[j] > 0 => j.document_id = "d1"
    /\ \A j1, j2 \in Jobs : j1 # j2 => queue[j1] + queue[j2] <= MaxFairDeliveries + 1

SpecWorkerFaulty ==
    /\ InitWorkerFaulty
    /\ [][NextWorkerFaulty]_vars
    /\ \A w \in Workers : WF_vars(WorkerStep(w) \/ FaultStep(w))

\* validate_ai_response is about to be called on a payload, a truncated text or a
\* JSON array, wrapped in one of the ways of Wrappings
InitValidate ==
    /\ NoAnalyzeCall
    /\ NoWorkers
    /\ raw_text \in { Wrap(k, <<JsonText(v)>>) :
                        k \in Wrappings, v \in Payloads \cup {MALFORMED_JSON, ARRAY_JSON} }
    /\ validated = NoRow
    /\ messages = <<>>
    /\ body = NoRow
    /\ fpc = "validate"

NextValidate == Validate

SpecValidate == InitValidate /\ [][NextValidate]_vars

\* AnthropicClient.complete is about to be called on a message list
InitComplete ==
    /\ NoAnalyzeCall
    /\ NoWorkers
    /\ raw_text = <<>>
    /\ validated = NoRow
    /\ messages \in MessageLists
    /\ body = NoRow
    /\ fpc = "complete"

NextComplete == BuildBody

SpecComplete == InitComplete /\ [][NextComplete]_vars

-----------------------------------------------------------------------------
(* Vocabulary of the properties *)

\* the call is past the try / except / finally bookkeeping of step 5
Finalized == pc \in {"commit", "refresh", "returned"} \/ (pc = "raised" /\ analysis # NoRow)

\* the call is over
CallOver == pc \in {"returned", "raised"}

\* the rows of the documents table that match the request
RequestedRows == {r \in Documents : r.id = document_id /\ r.tenant_id = tenant_id}

\* the first k calls of the callable timed out
FirstTimedOut(k) == \A i \in 1..k : calls[i].wire = "timeout"

\* the first k calls of the callable failed with a retryable kind
FirstRetryable(k) == \A i \in 1..k : calls[i].wire \in {"timeout", "status_error"}

\* the objects of one kind added to the session
AddedOfType(ty) == SelectSeq(added_objects, LAMBDA o : o.type = ty)

ValidationMessages ==
    {"Failed to parse AI response as JSON.", "AI response failed schema validation"}

-----------------------------------------------------------------------------
(* Properties *)

\* C1: once analyze_document has created the Analysis record it never raises to its
\* caller: every later failure, the final commit / refresh included, is absorbed into
\* the record and the call returns it.
C1_NeverRaisesOnceCreated == analysis # NoRow => pc # "raised"


\* C2: every Analysis starts in PROCESSING and is moved exactly once to COMPLETED,
\* FAILED or TIMED_OUT; the record returned is in a terminal status (never PENDING or
\* PROCESSING); no transition out of a terminal status ever happens.
C2_StatusMovesOnce ==
    /\ [](analysis # NoRow =>
            /\ analysis.status \in {"PROCESSING"} \cup TerminalStatus
            /\ (~Finalized => analysis.status = "PROCESSING" /\ status_writes = 0)
            /\ (Finalized => analysis.status \in TerminalStatus /\ status_writes = 1)
            /\ (pc = "returned" => analysis.status \in TerminalStatus))
    /\ [][ (analysis # NoRow /\ analysis.status \in TerminalStatus)
             => analysis'.status = analysis.status ]_vars

\* C2 witness: a call returned a record that went PROCESSING -> TIMED_OUT
C2_Witness ==
    pc = "returned" /\ analysis.status = "TIMED_OUT" /\ status_writes = 1

\* C3: a call that passes the preconditions commits exactly once, in the finalization
\* step, whichever outcome branch was taken; a call that fails a precondition commits
\* zero times.
C3_CommitExactlyOnce ==
    /\ commit_calls <= 1
    /\ (commit_calls = 1 => Finalized /\ pc # "commit")
    /\ (pc \in {"refresh", "returned"} => commit_calls = 1)
    /\ (pc = "raised" /\ analysis # NoRow => commit_calls = 1)
    /\ ((pc = "raised" /\ (\A r \in RequestedRows : r.extracted_text \in {None, ""}))
          => commit_calls = 0)

\* C3 witness: a call whose provider request failed unexpectedly has returned after
\* its one commit
C3_Witness ==
    /\ pc = "returned"
    /\ analysis.status = "FAILED"
    /\ Len(calls) = 1 /\ calls[1].wire = "connect_error"
    /\ commit_calls = 1

\* C4: in every outcome branch the finalized Analysis has retry_count equal to the
\* number of provider-call attempts made minus one, which lies in 0..2.
C4_RetryCountIsAttemptsMinusOne ==
    Finalized =>
        /\ analysis.retry_count = Len(calls) - 1
        /\ analysis.retry_count \in 0..2

\* C4 witness: a finalized record after three attempts
C4_Witness == Finalized /\ Len(calls) = 3 /\ analysis.retry_count = 2

\* C5: when no document with the given id exists for the requesting tenant (also when
\* it belongs to another tenant) the call raises DocumentNotFound, makes no provider
\* call, creates no Analysis and leaves storage unchanged (no add, flush or commit).
C5_DocumentNotFound ==
    (pc \notin {"idle", "fetch_document"} /\ RequestedRows = {}) =>
        /\ pc = "raised"
        /\ raised.kind = "DocumentNotFoundError"
        /\ calls = <<>>
        /\ analysis = NoRow
        /\ added_objects = <<>>
        /\ flush_calls = 0
        /\ commit_calls = 0

\* C5 witness: the document asked for exists, with text, for another tenant
C5_Witness ==
    /\ pc = "raised" /\ raised.kind = "DocumentNotFoundError"
    /\ document_id = "d1" /\ tenant_id = "t2"

\* C6: when the document exists for the tenant but its extracted text is null or empty
\* the call raises EmptyDocument before any Analysis is created and makes no provider
\* call; the existence check comes before the empty-text check.
C6_EmptyDocument ==
    /\ ((pc \notin {"idle", "fetch_document"}
           /\ (\E r \in RequestedRows : r.extracted_text \in {None, ""}))
          => (/\ pc = "raised"
              /\ raised.kind = "EmptyDocumentError"
              /\ analysis = NoRow
              /\ added_objects = <<>>
              /\ calls = <<>>))
    /\ (raised.kind = "EmptyDocumentError" => RequestedRows # {})
    /\ ((pc \notin {"idle", "fetch_document"} /\ RequestedRows = {}
           /\ (\E r \in Documents : r.id = document_id /\ r.extracted_text \in {None, ""}))
          => raised.kind = "DocumentNotFoundError")

\* C6 witness: EmptyDocument was raised for a document whose text is the empty string
C6_Witness ==
    /\ pc = "raised" /\ raised.kind = "EmptyDocumentError"
    /\ document_id = "d3" /\ tenant_id = "t1"


\* C7: for every k in 0..2, when the provider times out on the first k attempts and
\* then returns a valid response with N clauses, the call ends COMPLETED with
\* retry_count = k, exactly k+1 provider calls, and one Analysis plus N Clause
\* records added to storage.
C7_TimeoutsThenValid ==
    \A k \in 0..2 :
        (/\ Len(calls) >= k + 1
         /\ FirstTimedOut(k)
         /\ calls[k + 1].wire = "ok"
         /\ calls[k + 1].text \in ValidTexts)
        => /\ Len(calls) = k + 1
           /\ attempt_counter = k + 1
           /\ Finalized =>
                /\ analysis.status = "COMPLETED"
                /\ analysis.retry_count = k
                /\ Len(AddedOfType("Analysis")) = 1
                /\ Len(AddedOfType("Clause")) = Len(calls[k + 1].text.clauses)
                /\ Len(added_objects) = 1 + Len(calls[k + 1].text.clauses)

\* C7 witness: two timeouts, then a valid response with two clauses, call returned
C7_Witness ==
    /\ pc = "returned"
    /\ Len(calls) = 3 /\ FirstTimedOut(2)
    /\ calls[3].wire = "ok" /\ Len(calls[3].text.clauses) = 2
    /\ analysis.status = "COMPLETED"
    /\ Len(added_objects) = 3

\* C8: when every provider attempt times out, the call makes exactly 3 provider calls
\* and ends TIMED_OUT with error_message set to the timeout detail, zero Clause records
\* and exactly one Analysis record added to storage.
C8_AllAttemptsTimeOut ==
    /\ Len(calls) <= 3
    /\ (Finalized /\ FirstTimedOut(Len(calls)))
        => /\ Len(calls) = 3
           /\ analysis.status = "TIMED_OUT"
           /\ analysis.error_message = calls[3].exc.message
           /\ calls[3].exc.kind = "AITimeoutError"
           /\ AddedOfType("Clause") = <<>>
           /\ added_objects = << [type |-> "Analysis", id |-> analysis.id] >>

\* C8 witness: three timeouts, call returned TIMED_OUT
C8_Witness ==
    /\ pc = "returned"
    /\ Len(calls) = 3 /\ FirstTimedOut(3)
    /\ analysis.status = "TIMED_OUT"

\* C9: when the provider returns a response that fails validation (malformed JSON or
\* a schema violation) the analysis becomes FAILED without any further provider call,
\* error_message carries the validation detail, and zero Clause records are added.
C9_ValidationFailure ==
    \A i \in 1..Len(calls) :
        (calls[i].wire = "ok" /\ calls[i].text \in InvalidTexts)
        => /\ Len(calls) = i
           /\ rpc = "returned"
           /\ Finalized =>
                /\ analysis.status = "FAILED"
                /\ analysis.error_message =
                      (IF calls[i].text = MALFORMED_JSON
                       THEN "Failed to parse AI response as JSON."
                       ELSE "AI response failed schema validation")
                /\ AddedOfType("Clause") = <<>>
                /\ analysis.completed_at = None

\* C9 witness: a timeout, then an object that is marked non-contract and lists a clause
C9_Witness ==
    /\ pc = "returned"
    /\ Len(calls) = 2 /\ calls[1].wire = "timeout"
    /\ calls[2].wire = "ok" /\ calls[2].text = NonContractWithClauses
    /\ analysis.status = "FAILED"

\* C10: retry_with_backoff, for a callable that fails with a retryable kind exactly k
\* times and then succeeds: if k < max_retries it returns the success after exactly
\* k+1 calls; if k >= max_retries it raises after exactly max_retries calls and never
\* makes a further call.
C10_RetryAttempts ==
    /\ Len(calls) <= max_retries
    /\ \A k \in 0..Len(calls) :
          FirstRetryable(k) =>
            /\ (k < Len(calls) /\ calls[k + 1].wire = "ok")
                 => /\ k < max_retries
                    /\ rpc = "returned"
                    /\ r_result = calls[k + 1].text
                    /\ Len(calls) = k + 1
            /\ (k = Len(calls) /\ rpc \in {"returned", "raised"})
                 => /\ rpc = "raised"
                    /\ k = max_retries
            /\ (k >= max_retries /\ rpc = "loop")
                 => ~ENABLED (\E w \in WireOutcomes : RetryAttempt(w))

\* C10 witness: max_retries = 3, two retryable failures, then a success returned
C10_Witness ==
    /\ max_retries = 3
    /\ rpc = "returned"
    /\ Len(calls) = 3 /\ FirstRetryable(2)
    /\ calls[3].wire = "ok"


\* C11: retry_with_backoff never retries a failure whose kind is outside the
\* retryable set: on any attempt, the first included, it propagates to the caller at
\* once, with no backoff wait and no further call of the callable.
C11_NonRetryablePropagates ==
    \A i \in 1..Len(calls) :
        (calls[i].exc # NoExc /\ calls[i].exc.kind \notin retryable_exceptions)
        => /\ Len(calls) = i
           /\ rpc = "raised"
           /\ r_exc = calls[i].exc
           /\ Len(sleeps) = i - 1
           /\ ~ENABLED RetrySleep
           /\ ~ENABLED (\E w \in WireOutcomes : RetryAttempt(w))

\* C11 witness: the first call fails with a connection error and the wrapper raised it
C11_Witness ==
    /\ rpc = "raised"
    /\ Len(calls) = 1 /\ calls[1].wire = "connect_error"
    /\ max_retries = 3
    /\ sleeps = <<>>

\* C12: when retry_with_backoff exhausts all attempts, the failure it raises is the
\* retryable failure raised by the final attempt (same kind and value, not an earlier
\* attempt's failure and not a dedicated "retries exhausted" kind).
C12_LastFailureReRaised ==
    (/\ rpc = "raised"
     /\ max_retries >= 1
     /\ Len(calls) = max_retries
     /\ FirstRetryable(max_retries))
    => /\ r_exc = calls[max_retries].exc
       /\ r_exc.kind \in retryable_exceptions
       /\ \A i \in 1..(max_retries - 1) : r_exc # calls[i].exc

\* C12 witness: two timeouts, then a status error on the third and last attempt
C12_Witness ==
    /\ rpc = "raised"
    /\ max_retries = 3 /\ Len(calls) = 3
    /\ calls[1].wire = "timeout" /\ calls[2].wire = "timeout"
    /\ calls[3].wire = "status_error"
    /\ r_exc.kind = "HTTPStatusError"

\* C13: retry_with_backoff waits base_delay * 2^i after the failed attempt with index
\* i (from 0) and waits only between attempts: in every run the number of backoff
\* waits is the number of attempts made minus one, so no wait follows the final
\* attempt.
C13_WaitsOnlyBetweenAttempts ==
    /\ \A i \in 1..Len(sleeps) : sleeps[i] = base_delay * (2 ^ (i - 1))
    /\ (rpc \in {"returned", "raised"} /\ Len(calls) >= 1)
         => Len(sleeps) = Len(calls) - 1

-----------------------------------------------------------------------------
(* Vocabulary of the worker properties: trace[w] is the sequence of calls the *)
(* worker made for the job it was last handed.                               *)

Has(t, x) == \E i \in 1..Len(t) : t[i] = x

Count(t, x) == Cardinality({i \in 1..Len(t) : t[i] = x})

\* the last call of the worker for its job was queue.ack
EndsWithAck(t) == Len(t) > 0 /\ t[Len(t)] = "ack"

\* _process_job was entered for job[w] and has ended
ProcessingOver(w) == trace[w] # <<>> /\ wpc[w] \in {"loop", "dequeue", "stopped"}

\* between a successful set of the dedup marker and the end of the except clauses
Proceeding(w) == wpc[w] \in {"lock", "locked", "in_analyze", "release", "requeue", "delete"}

\* inside _process_job
InProcessJob(w) == wpc[w] \in {"process", "skip_ack", "ack"} \/ Proceeding(w)

FailureTrace ==
    <<"set_nx_new", "lock_acquired", "analyze_start", "analyze_raised", "lock_released",
      "delete", "ack">>

SuccessTrace ==
    <<"set_nx_new", "lock_acquired", "analyze_start", "analyze_returned",
      "lock_released", "ack">>

DuplicateTrace == <<"set_nx_exists", "ack">>

\* C14: when a job arrives whose message id already has its dedup marker set, the
\* job is acknowledged, the Orchestrator is not invoked, no lock is acquired and the
\* marker is left in place: the worker's calls for the job are the set-if-absent and
\* one ack, and its steps on that branch change neither the markers nor the locks.
C14_DuplicateSkipped ==
    [][\A w \in Workers :
          /\ (wpc[w] = "process" /\ job[w].message_id \in dedup_keys /\ wpc'[w] # wpc[w])
                => /\ wpc'[w] = "skip_ack"
                   /\ trace'[w] = <<"set_nx_exists">>
                   /\ dedup_keys' = dedup_keys /\ locks' = locks
          /\ (wpc[w] = "skip_ack" /\ wpc'[w] # wpc[w])
                => /\ wpc'[w] = "loop"
                   /\ trace'[w] = DuplicateTrace
                   /\ dedup_keys' = dedup_keys /\ locks' = locks]_vars

\* C14 witness: a worker has skipped a duplicate while the marker is still set
C14_Witness ==
    \E w \in Workers :
        /\ ProcessingOver(w)
        /\ trace[w] = DuplicateTrace
        /\ job[w].message_id \in dedup_keys

\* C15: when the per-document lock is already held by another worker, the job is
\* re-queued with a delay, the Orchestrator is not invoked for that attempt, and the
\* job is not acknowledged on that path.
C15_ContentionNotAcknowledged ==
    \A w \in Workers :
        Has(trace[w], "lock_failed")
        => /\ ~Has(trace[w], "analyze_start")
           /\ ~Has(trace[w], "ack")
           /\ ProcessingOver(w) => Has(trace[w], "requeue")

\* C16: when processing fails after the dedup marker was set (any failure but lock
\* contention, a precondition failure of the Orchestrator included), the marker of
\* the message is deleted and the job is then acknowledged; a later delivery of the
\* same message id finds no marker and goes on to the lock instead of being skipped.
C16_FailureDeletesMarker ==
    [][\A w \in Workers :
          /\ (wpc[w] = "release" /\ Has(trace[w], "analyze_raised") /\ wpc'[w] # wpc[w])
                => wpc'[w] = "delete"
          /\ (wpc[w] = "delete" /\ wpc'[w] # wpc[w])
                => /\ job[w].message_id \notin dedup_keys'
                   /\ wpc'[w] = "ack"
          /\ (wpc[w] = "ack" /\ Has(trace[w], "analyze_raised") /\ wpc'[w] # wpc[w])
                => trace'[w] = FailureTrace
          /\ (wpc[w] = "process" /\ job[w].message_id \notin dedup_keys
                /\ wpc'[w] # wpc[w])
                => wpc'[w] = "lock"]_vars

\* C16 witness: one worker ended a job in the failure branch, and another worker,
\* handed the same message again, is inside the Orchestrator for it
C16_Witness ==
    \E w1, w2 \in Workers :
        /\ w1 # w2 /\ job[w1] = job[w2]
        /\ ProcessingOver(w1) /\ trace[w1] = FailureTrace
        /\ wpc[w2] = "in_analyze"

\* C17: in the duplicate-skip, successful-analysis and unexpected-failure branches,
\* every job handed to _process_job is acknowledged exactly once by the time its
\* processing ends: never twice at any point, and once when it has ended.
C17_AcknowledgedExactlyOnce ==
    \A w \in Workers :
        ~Has(trace[w], "lock_failed")
        => /\ Count(trace[w], "ack") <= 1
           /\ ProcessingOver(w)
                => /\ Count(trace[w], "ack") = 1
                   /\ trace[w] \in {DuplicateTrace, SuccessTrace, FailureTrace}

\* C17 witness: one worker ended a job in the success branch and the other ended one
\* in the duplicate branch
C17_Witness ==
    \E w1, w2 \in Workers :
        /\ ProcessingOver(w1) /\ trace[w1] = SuccessTrace
        /\ ProcessingOver(w2) /\ trace[w2] = DuplicateTrace

\* C18: with workers running concurrently, at most one worker is inside an
\* Orchestrator invocation for a given document id at any time, and a worker is
\* inside the Orchestrator only while it holds that document's lock (the lock is not
\* lost through expiry).
C18_MutualExclusion ==
    /\ \A w \in Workers :
          wpc[w] = "in_analyze" => locks[job[w].document_id] = w
    /\ \A w1, w2 \in Workers :
          (/\ wpc[w1] = "in_analyze" /\ wpc[w2] = "in_analyze"
           /\ job[w1].document_id = job[w2].document_id)
          => w1 = w2

\* C18 witness: one worker is inside the Orchestrator for a document while the other,
\* handed another message for the same document, failed to take the lock
C18_Witness ==
    \E w1, w2 \in Workers :
        /\ w1 # w2
        /\ wpc[w1] = "in_analyze"
        /\ wpc[w2] = "requeue"
        /\ job[w2].document_id = job[w1].document_id
        /\ job[w2].message_id # job[w1].message_id

\* C19: when two or more workers receive jobs with the same message id and
\* interleave arbitrarily, at most one of them proceeds to the lock and the
\* Orchestrator while the marker stays set, and every other one acknowledges and
\* skips.
C19_OneProceedsPerMessage ==
    /\ \A w \in Workers : Proceeding(w) => job[w].message_id \in dedup_keys
    /\ \A w1, w2 \in Workers :
          (/\ w1 # w2
           /\ InProcessJob(w1) /\ InProcessJob(w2)
           /\ job[w1].message_id = job[w2].message_id
           /\ Proceeding(w1))
          => /\ ~Proceeding(w2)
             /\ wpc[w2] = "process"
                  => AfterDedup(SetNX(dedup_keys, job[w2].message_id).set) = "skip_ack"
             /\ wpc[w2] = "skip_ack" => trace[w2] = <<"set_nx_exists">>
             /\ wpc[w2] = "ack" => Has(trace[w2], "delete")

\* C19 witness: two workers were handed the same message; one is inside the
\* Orchestrator and the other has acknowledged and skipped
C19_Witness ==
    \E w1, w2 \in Workers :
        /\ w1 # w2
        /\ wpc[w1] = "in_analyze"
        /\ ProcessingOver(w2) /\ trace[w2] = DuplicateTrace
        /\ job[w1].message_id = job[w2].message_id

\* C20: once the worker's shutdown flag is set that worker starts processing no
\* further job: no job obtained from the queue after the flag was set is handed to
\* _process_job.
C20_NoJobAfterShutdown ==
    \A w \in Workers : InProcessJob(w) => ~flag_at_dequeue[w]

\* C21: a shutdown request never interrupts a job in flight: setting the flag moves
\* no worker and undoes none of its calls, a worker leaves _process_job only through
\* an acknowledgment whether the flag is set or not, and once the flag is set the
\* worker ends the job it has and its loop then terminates.
C21_ShutdownFinishesJob ==
    /\ [][\A w \in Workers :
            /\ (shutdown_event'[w] # shutdown_event[w])
                  => (wpc' = wpc /\ trace' = trace /\ job' = job)
            /\ (InProcessJob(w) /\ ~InProcessJob(w)')
                  => /\ wpc'[w] = "loop"
                     /\ EndsWithAck(trace'[w])
            /\ (shutdown_event[w] /\ wpc[w] = "loop" /\ wpc'[w] # wpc[w])
                  => wpc'[w] = "stopped"]_vars
    /\ \A w \in Workers :
          (shutdown_event[w] /\ InProcessJob(w))
              ~> (wpc[w] = "stopped" /\ EndsWithAck(trace[w]))

\* C21 witness: the flag was set after the job was handed to _process_job and before
\* its acknowledgment, and the job has gone on through the Orchestrator to finally
C21_Witness ==
    \E w \in Workers :
        /\ wpc[w] = "ack"
        /\ shutdown_event[w] /\ ~flag_at_dequeue[w]
        /\ trace[w] = SubSeq(SuccessTrace, 1, 5)

\* the user message build_extraction_prompt makes of a document text
UserContent(text) == "Analyze this document:\n\n" \o text

\* the requested template id matches no template of the requesting tenant
TemplateMiss ==
    /\ template_id # None
    /\ \A r \in Templates : ~(r.id = template_id /\ r.tenant_id = tenant_id)

\* C22: tenant isolation: every Analysis created by analyze_document has tenant_id
\* equal to the requesting tenant id and document_id equal to a document owned by
\* that tenant; no call with tenant T creates an Analysis for, or sends to the
\* provider the text of, a document owned by another tenant.
C22_TenantIsolation ==
    /\ analysis # NoRow
          => /\ analysis.tenant_id = tenant_id
             /\ analysis.document_id = document_id
             /\ \E r \in Documents : r.id = analysis.document_id /\ r.tenant_id = tenant_id
             /\ \A r \in Documents :
                   r.tenant_id # tenant_id => analysis.document_id # r.id
    /\ \A i \in 1..Len(calls) :
          /\ \E r \in Documents :
                /\ r.tenant_id = tenant_id /\ r.id = document_id
                /\ calls[i].messages[2].content = UserContent(r.extracted_text)
          /\ \A r \in Documents :
                (r.tenant_id # tenant_id /\ Truthy(r.extracted_text))
                => \A k \in 1..Len(calls[i].messages) :
                      calls[i].messages[k].content # UserContent(r.extracted_text)
    /\ (document_id # None /\ (\A r \in Documents :
                                  r.id = document_id => r.tenant_id # tenant_id))
          => (analysis = NoRow /\ calls = <<>>)

\* C22 witness: tenant t2 asked for its own document d2; the Analysis exists and the
\* provider has been called
C22_Witness ==
    /\ tenant_id = "t2" /\ document_id = "d2"
    /\ analysis # NoRow
    /\ Len(calls) >= 1

\* C23: a template id that matches no template of the requesting tenant (absent, or
\* owned by another tenant) never aborts the analysis: past the preconditions the
\* Analysis is still created, with template_id null, and the provider is called with
\* the default system instructions; the only failures raised are storage failures of
\* the final commit or refresh.
C23_TemplateMissProceeds ==
    (TemplateMiss /\ RequestedRows # {} /\ (\A r \in RequestedRows : Truthy(r.extracted_text)))
    => /\ pc \notin {"idle", "fetch_document", "fetch_template"} => template = NoRow
       /\ pc \notin {"idle", "fetch_document", "fetch_template", "create_analysis"}
             => /\ analysis # NoRow
                /\ analysis.template_id = None
       /\ \A i \in 1..Len(calls) : calls[i].messages[1].content = SYSTEM_PROMPT
       /\ pc = "raised" => raised.kind = "DBAPIError"
       /\ pc = "retry" /\ rpc = "loop" /\ calls = <<>>
             => ENABLED (\E w \in WireOutcomes : RetryAttempt(w))

\* C23 witness: tenant t2 passed template tplA of tenant t1; the call returned an
\* Analysis and the provider was called
C23_Witness ==
    /\ tenant_id = "t2" /\ template_id = "tplA"
    /\ pc = "returned"
    /\ Len(calls) >= 1

-----------------------------------------------------------------------------
(* Vocabulary of the validator properties *)

\* the JSON value whose text was handed to the validator, wrapped or not
InputValue == raw_text[CHOOSE i \in 1..Len(raw_text) : raw_text[i].tok = "value"].v

\* the validator has run on the text of a JSON object
ValidatedObject == fpc = "done" /\ InputValue.json = "object"

Accepted == validated.exc = NoExc /\ validated.value = InputValue

SchemaError ==
    validated.exc = Exc("AIResponseValidationError", "AI response failed schema validation")

ParseError ==
    validated.exc = Exc("AIResponseValidationError", "Failed to parse AI response as JSON.")

\* a clause as the schema wants it: closed enums, scores from 0.0 to 1.0
ClauseWellFormed(c) ==
    /\ c.clause_type \in ClauseType
    /\ c.risk_level \in RiskLevel
    /\ c.confidence_score \in 0..100

ClausesWellFormed(v) == \A i \in 1..Len(v.clauses) : ClauseWellFormed(v.clauses[i])

\* C24: for every otherwise well-formed extraction payload with is_contract = false,
\* validate_ai_response rejects the payload whenever the clauses list is non-empty,
\* and accepts it when the clauses list is empty.
C24_NonContractClauses ==
    (/\ ValidatedObject
     /\ ~InputValue.is_contract
     /\ InputValue.language # ""
     /\ ClausesWellFormed(InputValue))
    => /\ Len(InputValue.clauses) > 0 => SchemaError
       /\ Len(InputValue.clauses) = 0 => Accepted

\* C24 witness: a non-contract payload that lists one valid clause was rejected
C24_Witness ==
    /\ ValidatedObject
    /\ raw_text = <<JsonText(NonContractWithClauses)>>
    /\ SchemaError

\* C25: for every clause, validation fails with a schema-validation error when
\* confidence_score is below 0.0 or above 1.0, and the boundary values 0.0 and 1.0
\* themselves are accepted.
C25_ConfidenceBounds ==
    ValidatedObject
    => /\ (\E i \in 1..Len(InputValue.clauses) :
              \/ InputValue.clauses[i].confidence_score < 0
              \/ InputValue.clauses[i].confidence_score > 100)
          => SchemaError
       /\ (/\ InputValue.is_contract
           /\ \A i \in 1..Len(InputValue.clauses) :
                 /\ InputValue.clauses[i].clause_type \in ClauseType
                 /\ InputValue.clauses[i].risk_level \in RiskLevel
                 /\ InputValue.clauses[i].confidence_score \in {0, 95, 100})
          => Accepted

\* C25 witness: a payload valid but for a confidence_score of 1.01 was rejected
C25_Witness ==
    /\ ValidatedObject
    /\ InputValue.is_contract /\ InputValue.language = "English"
    /\ Len(InputValue.clauses) = 1
    /\ InputValue.clauses[1] = [SampleClause(1) EXCEPT !.confidence_score = 101]
    /\ SchemaError

\* C26: validation fails for any clause whose clause_type is not one of the 10
\* ClauseType values or whose risk_level is not one of the 4 RiskLevel values; so in
\* a validated response every clause_type and risk_level is a member of its enum and
\* the enum mapping of the Orchestrator cannot fail.
C26_ClosedEnums ==
    /\ Cardinality(ClauseType) = 10 /\ Cardinality(RiskLevel) = 4
    /\ ValidatedObject
       => /\ (\E i \in 1..Len(InputValue.clauses) :
                 \/ InputValue.clauses[i].clause_type \notin ClauseType
                 \/ InputValue.clauses[i].risk_level \notin RiskLevel)
             => SchemaError
          /\ validated.exc = NoExc
             => \A i \in 1..Len(validated.value.clauses) :
                   /\ validated.value.clauses[i].clause_type \in ClauseType
                   /\ validated.value.clauses[i].risk_level \in RiskLevel

\* C26 witness: a payload valid but for the risk_level "high" was rejected
C26_Witness ==
    /\ ValidatedObject
    /\ InputValue.is_contract /\ InputValue.language = "English"
    /\ Len(InputValue.clauses) = 1
    /\ InputValue.clauses[1] = [SampleClause(1) EXCEPT !.risk_level = "high",
                                                       !.confidence_score = 100]
    /\ SchemaError

\* C27: for every JSON object text, validate_ai_response gives the same outcome
\* (equal typed result, or failure of the same kind) for the bare text and for the
\* same text wrapped in a markdown code fence with an optional language tag.
C27_FenceEquivalence ==
    (ValidatedObject /\ (\E k \in FenceWrappings : raw_text = Wrap(k, <<JsonText(InputValue)>>)))
    => LET bare == ValidateText(<<JsonText(InputValue)>>)
       IN  /\ validated.exc = bare.exc
           /\ validated.exc = NoExc => validated.value = bare.value
           /\ ~ParseError

\* C27 witness: a valid payload inside a fence tagged with another language than
\* json was accepted
C27_Witness ==
    /\ ValidatedObject
    /\ raw_text = Wrap("fence_tag", <<JsonText(ValidResponse(2))>>)
    /\ Accepted

\* C28: the validator requires language to be a non-empty string: a payload whose
\* language is the empty string (all other fields valid) is rejected with a
\* schema-validation error.
C28_LanguageNonEmpty ==
    (ValidatedObject /\ InputValue.language = "") => SchemaError

\* the contents of the system-role messages of a list, in order
SystemContents(msgs) ==
    LET sys == SelectSeq(msgs, LAMBDA m : m.role = "system")
    IN  [i \in 1..Len(sys) |-> sys[i].content]

\* the strings of a sequence joined into one, sep between neighbours
RECURSIVE Join(_, _)
Join(strs, sep) ==
    IF Len(strs) = 1 THEN strs[1] ELSE strs[1] \o sep \o Join(Tail(strs), sep)

\* separators a merge of several contents may put between them
Separators == {"", " ", "\n", "\n\n"}

\* C29: AnthropicClient.complete: for every message sequence, the content of all
\* system-role messages is merged into the single top-level system field (none is
\* dropped when there are two or more), and the messages list of the body holds
\* exactly the non-system messages in their original order.
C29_SystemMessagesMerged ==
    fpc = "posted"
    => /\ SystemContents(messages) = <<>> => body.system = None
       /\ SystemContents(messages) # <<>>
             => \E sep \in Separators : body.system = Join(SystemContents(messages), sep)
       /\ body.messages = SelectSeq(messages, LAMBDA m : m.role # "system")

\* C30: in every run that passes the preconditions, the Analysis record is created in
\* status PROCESSING and persisted (added to the session and flushed) before the
\* first provider call, so at each provider call a persisted PROCESSING record for
\* that attempt already exists.
C30_PersistedBeforeProviderCall ==
    [][calls' # calls
         => /\ analysis # NoRow
            /\ analysis.status = "PROCESSING"
            /\ analysis.started_at # None
            /\ flush_calls >= 1
            /\ \E i \in 1..Len(added_objects) :
                  added_objects[i] = [type |-> "Analysis", id |-> analysis.id]
            /\ commit_calls = 0]_vars

\* C30 witness: the provider has been called twice for a record that is still being
\* processed
C30_Witness ==
    /\ pc = "retry"
    /\ Len(calls) = 2
    /\ analysis # NoRow /\ analysis.status = "PROCESSING"
    /\ flush_calls = 1

\* C31: Clause records are created only on the success branch: an Analysis that ends
\* FAILED or TIMED_OUT has zero Clause records, and an Analysis that ends COMPLETED
\* has exactly one Clause per validated extraction entry, in the provider's order,
\* each with analysis_id equal to the id of the parent Analysis.
C31_ClausesOnlyOnSuccess ==
    analysis # NoRow
    => LET clauses == AddedOfType("Clause")
       IN  /\ analysis.status \in {"PROCESSING", "FAILED", "TIMED_OUT"} => clauses = <<>>
           /\ analysis.status = "COMPLETED"
                => /\ rpc = "returned" /\ r_result.json = "object"
                   /\ Len(clauses) = Len(r_result.clauses)
                   /\ \A i \in 1..Len(clauses) :
                         /\ clauses[i].analysis_id = analysis.id
                         /\ clauses[i].clause_type = r_result.clauses[i].clause_type
                         /\ clauses[i].risk_level = r_result.clauses[i].risk_level
                         /\ clauses[i].title = r_result.clauses[i].title
                         /\ clauses[i].page_number = r_result.clauses[i].page_number
                         /\ clauses[i].confidence_score
                               = r_result.clauses[i].confidence_score
           /\ \A i \in 1..Len(added_objects) :
                 added_objects[i].type = "Clause" => i > 1

\* C31 witness: the call returned a COMPLETED Analysis with two Clause records
C31_Witness ==
    /\ pc = "returned"
    /\ analysis.status = "COMPLETED"
    /\ Len(AddedOfType("Clause")) = 2
    /\ Len(calls) = 2

RECURSIVE SumSeq(_)
SumSeq(q) == IF q = <<>> THEN 0 ELSE Head(q) + SumSeq(Tail(q))

\* the longest the provider phase can have lasted so far: every call made ran to the
\* provider timeout, and every backoff wait was slept in full
WorstProviderPhase == Len(calls) * provider_timeout + SumSeq(sleeps)

ContentionTrace == <<"set_nx_new", "lock_failed", "requeue", "ack">>

C34_LastFailureDecidesStatus ==
    (Finalized /\ Len(calls) >= 3 /\ FirstRetryable(3))
    => /\ Len(calls) = 3
       /\ attempt_counter = 3
       /\ analysis.retry_count = 2
       /\ calls[3].wire = "timeout" => analysis.status = "TIMED_OUT"
       /\ calls[3].wire = "status_error" => analysis.status = "FAILED"
       /\ analysis.error_message = calls[3].exc.message
       /\ analysis.completed_at = None

\* C34 witness: two timeouts, then a non-2xx answer on the third attempt: FAILED
C34_Witness ==
    /\ pc = "returned"
    /\ Len(calls) = 3
    /\ calls[1].wire = "timeout" /\ calls[2].wire = "timeout"
    /\ calls[3].wire = "status_error"
    /\ analysis.status = "FAILED" /\ analysis.retry_count = 2

\* C35: every finalized Analysis has consistent outcome fields: status COMPLETED
\* implies completed_at is set and error_message is null; status FAILED or TIMED_OUT
\* implies error_message is set and completed_at is null.
C35_OutcomeFieldsConsistent ==
    Finalized
    => /\ analysis.status \in TerminalStatus
       /\ analysis.status = "COMPLETED"
             => (analysis.completed_at # None /\ analysis.error_message = None)
       /\ analysis.status \in {"FAILED", "TIMED_OUT"}
             => (analysis.error_message # None /\ analysis.completed_at = None)

\* C35 witness: the call returned a FAILED Analysis after a response that did not
\* pass validation
C35_Witness ==
    /\ pc = "returned"
    /\ analysis.status = "FAILED"
    /\ analysis.error_message \in ValidationMessages
    /\ analysis.completed_at = None

\* C36: the document lock is released on every exit path of the locked section,
\* whether the Orchestrator returns or raises: a lock is held only by a worker
\* inside the locked section for that document, so whenever _process_job has
\* finished the worker no longer holds the lock of the job's document and a later
\* job for the same document can acquire it.
C36_LockReleasedOnEveryPath ==
    /\ \A k \in LockKeys :
          locks[k] # None
          => /\ locks[k] \in Workers
             /\ wpc[locks[k]] \in {"locked", "in_analyze", "release"}
             /\ job[locks[k]].document_id = k
    /\ \A w \in Workers :
          (wpc[w] \in {"delete", "ack", "loop", "dequeue", "stopped"} /\ trace[w] # <<>>)
          => /\ locks[job[w].document_id] # w
             /\ (Has(trace[w], "lock_acquired") => Has(trace[w], "lock_released"))
             /\ (locks[job[w].document_id] = None
                   => CanAcquire(locks, job[w].document_id))

\* C36 witness: a job ended with a failure of the Orchestrator, and the other worker
\* has since taken the lock of the same document
C36_Witness ==
    \E w1, w2 \in Workers :
        /\ w1 # w2
        /\ ProcessingOver(w1) /\ trace[w1] = FailureTrace
        /\ wpc[w2] = "in_analyze"
        /\ job[w2].document_id = job[w1].document_id
        /\ locks[job[w1].document_id] = w2

\* the job of worker w is failing: the Orchestrator raised, or an exception is on
\* its way out of _process_job, or the loop is backing off after one
JobFailing(w) == wpc[w] \in {"delete", "ack_raising", "backoff"}

\* C37: no failure of a single job stops the worker. A worker stops only at the test
\* of its loop with the shutdown flag set; a failure, including one that leaves
\* _process_job, brings it back to that test (after the back-off), and with the flag
\* not set the test leads on to the next poll of the queue.
C37_JobFailureKeepsLoop ==
    /\ [][\A w \in Workers :
            /\ (wpc'[w] = "stopped" /\ wpc[w] # "stopped")
                  => (wpc[w] = "loop" /\ shutdown_event[w])
            /\ (wpc[w] = "backoff" /\ wpc'[w] # "backoff") => wpc'[w] = "loop"
            /\ (wpc[w] = "loop" /\ ~shutdown_event[w] /\ wpc'[w] # "loop")
                  => wpc'[w] = "dequeue"]_vars
    /\ \A w \in Workers :
          (JobFailing(w) /\ ~shutdown_event[w])
              ~> (wpc[w] = "dequeue" \/ shutdown_event[w])

\* C37 witness: an exception left _process_job and the worker, not asked to stop, is
\* polling the queue again
C37_Witness ==
    \E w \in Workers :
        /\ wpc[w] = "dequeue"
        /\ ~shutdown_event[w]
        /\ Len(trace[w]) > 0
        /\ trace[w][Len(trace[w])] \in {"set_raised", "ack_raised"}

====
